---- MODULE Spec2Model ----
(***************************************************************************)
(* Model of enhanced-url-analyzer.py: the per-URL pipeline analyze_url and *)
(* the batch loop of main.                                                 *)
(*                                                                         *)
(* Strings the code inspects are sequences of tokens: a URL is             *)
(* <<"https://", "a.com", "/1">> or, without a scheme, <<"a.com", "/1">>;  *)
(* a line of the text area may carry whitespace tokens " " around it.      *)
(* Python's None and "no such object" are the empty sequence, a present    *)
(* value v is <<v>>.                                                       *)
(***************************************************************************)
EXTENDS Integers, Sequences, FiniteSets, TLC

VARIABLES urls_input, urls, warned, bar, i, results, reports, envs, pc, frame

vars == <<urls_input, urls, warned, bar, i, results, reports, envs, pc, frame>>

batchVars == <<urls_input, urls, warned, bar, i, results, reports, envs, pc>>

(***************************************************************************)
(* Bounds of the model and constants of the program.                       *)
(***************************************************************************)
MaxLines == 11

MaxTags == 2

MaxUrls == 10

None == <<>>

Some(v) == <<v>>

SchemeTokens == {"http://", "https://"}

Paths == <<"/1", "/2", "/3", "/4", "/5", "/6", "/7", "/8", "/9", "/10",
           "/11", "/12", "/13", "/14", "/15", "/16">>

(***************************************************************************)
(* String helpers.                                                         *)
(***************************************************************************)
RECURSIVE LStrip(_)
LStrip(s) == IF s # <<>> /\ Head(s) = " " THEN LStrip(Tail(s)) ELSE s

RECURSIVE RStrip(_)
RStrip(s) ==
    IF s # <<>> /\ s[Len(s)] = " " THEN RStrip(SubSeq(s, 1, Len(s) - 1)) ELSE s

Strip(s) == RStrip(LStrip(s))

StartsWithScheme(url) == url # <<>> /\ Head(url) \in SchemeTokens

Netloc(url) == IF StartsWithScheme(url) /\ Len(url) >= 2 THEN url[2] ELSE ""

UrlJoinRaises(href) == StartsWithScheme(href) /\ Len(href) >= 2 /\ href[2] = "[bad"

UrlJoin(base, href) ==
    IF href = <<>> THEN base
    ELSE IF Head(href) \in SchemeTokens \cup {"mailto:"} THEN href
    ELSE <<base[1], base[2]>> \o href

PreprocessUrl(url) ==
    IF ~StartsWithScheme(url) THEN <<"https://">> \o url ELSE url

(***************************************************************************)
(* The parsed page (soup): the tags the extractors query.                  *)
(*   title    None, or Some(text of the title tag)                         *)
(*   meta     None, or Some(the meta name=description tag), whose content  *)
(*            attribute is None or Some(text)                              *)
(*   headings the h1..h6 tags in document order                            *)
(*   anchors  the a tags in document order, with or without an href        *)
(*   blocks   the text of the p, div and span tags, as words               *)
(***************************************************************************)
HeadingTag(lvl) == <<"h1", "h2", "h3", "h4", "h5", "h6">>[lvl]

Upper(tag) ==
    CASE tag = "h1" -> "H1" [] tag = "h2" -> "H2" [] tag = "h3" -> "H3"
      [] tag = "h4" -> "H4" [] tag = "h5" -> "H5" [] tag = "h6" -> "H6"

SeqsUpTo(S, n) == UNION {[1..k -> S] : k \in 0..n}

Titles == {None, Some("T")}

Metas == {None, Some([content |-> None]), Some([content |-> Some("D")])}

Blocks == {<<>>, << <<"two", "words">> >>}

HeadingElems == {[tag |-> HeadingTag(lvl), text |-> "t"] : lvl \in 1..6}

AnchorElems ==
    { [has_href |-> TRUE, href |-> <<"/x">>, text |-> "a"],
      [has_href |-> TRUE, href |-> <<"https://", "a.com", "/z">>, text |-> "a"],
      [has_href |-> TRUE, href |-> <<"https://", "A.com", "/y">>, text |-> ""],
      [has_href |-> TRUE, href |-> <<"mailto:", "x@y">>, text |-> "a"],
      [has_href |-> TRUE, href |-> <<"http://", "[bad">>, text |-> "a"],
      [has_href |-> FALSE, href |-> <<>>, text |-> "a"] }

Pages ==
    UNION { { [title |-> t, meta |-> m, headings |-> h, anchors |-> a,
               blocks |-> b] :
                t \in Titles, m \in Metas, b \in Blocks,
                a \in SeqsUpTo(AnchorElems, MaxTags - Len(h)) } :
            h \in SeqsUpTo(HeadingElems, MaxTags) }

ErrorPage ==
    [title |-> Some("T"), meta |-> None,
     headings |-> <<[tag |-> "h1", text |-> "t"]>>,
     anchors |-> <<[has_href |-> TRUE, href |-> <<"/x">>, text |-> "a"]>>,
     blocks |-> << <<"two", "words">> >>]

(***************************************************************************)
(* What the network answers to the two requests analyze_url makes for one  *)
(* URL: load is None when the timing request raises, else Some(ms); fetch  *)
(* is None when the content request raises, else Some(response).           *)
(***************************************************************************)
Response(code, page) == [status_code |-> code, page |-> page]

Loads == {None, Some(120)}

Fetches ==
    {None} \cup {Some(Response(200, p)) : p \in Pages}
           \cup {Some(Response(404, ErrorPage))}

Envs == {[load |-> l, fetch |-> f] : l \in Loads, f \in Fetches}

(***************************************************************************)
(* Helper functions of the source.                                         *)
(***************************************************************************)
RequestsGetRaises(url, answer) == ~StartsWithScheme(url) \/ answer = None

GetLoadTime(url, env) ==
    IF RequestsGetRaises(url, env.load) THEN None ELSE env.load

MetaRaises(soup) == soup.meta # None /\ soup.meta[1].content = None

ExtractMetaTags(soup) ==
    [title |-> IF soup.title # None THEN soup.title[1] ELSE "",
     description |-> IF soup.meta # None THEN soup.meta[1].content[1] ELSE ""]

FindAll(soup, tag) == SelectSeq(soup.headings, LAMBDA h : h.tag = tag)

RECURSIVE HeadingsFrom(_, _)
HeadingsFrom(soup, lvl) ==
    IF lvl > 6 THEN <<>>
    ELSE LET hs == FindAll(soup, HeadingTag(lvl))
         IN  [k \in 1..Len(hs) |->
                 [level |-> Upper(HeadingTag(lvl)), text |-> hs[k].text]]
             \o HeadingsFrom(soup, lvl + 1)

ExtractHeadings(soup) == HeadingsFrom(soup, 1)

CountLevel(headings, level) ==
    Len(SelectSeq(headings, LAMBDA h : h.level = level))

AnchorsWithHref(soup) == SelectSeq(soup.anchors, LAMBDA a : a.has_href)

LinksRaise(soup) ==
    \E k \in 1..Len(soup.anchors) :
        soup.anchors[k].has_href /\ UrlJoinRaises(soup.anchors[k].href)

LinkRecord(a, base_url) ==
    [url |-> UrlJoin(base_url, a.href), anchor_text |-> a.text]

ExtractInternalLinksUnresolved(soup, base_url) ==
    LET domain == Netloc(base_url)
        as == SelectSeq(AnchorsWithHref(soup), LAMBDA a : Netloc(a.href) = domain)
    IN  [k \in 1..Len(as) |-> LinkRecord(as[k], base_url)]

ExtractInternalLinks(soup, base_url) ==
    LET domain == Netloc(base_url)
        as == SelectSeq(AnchorsWithHref(soup),
                  LAMBDA a : Netloc(UrlJoin(base_url, a.href)) = domain)
    IN  [k \in 1..Len(as) |-> LinkRecord(as[k], base_url)]

ExtractExternalLinks(soup, base_url) ==
    LET domain == Netloc(base_url)
        as == SelectSeq(AnchorsWithHref(soup),
                  LAMBDA a : Netloc(UrlJoin(base_url, a.href)) # domain)
    IN  [k \in 1..Len(as) |-> LinkRecord(as[k], base_url)]

RECURSIVE Join(_)
Join(blocks) == IF blocks = <<>> THEN <<>> ELSE Head(blocks) \o Join(Tail(blocks))

FleschReadingEase(text) == IF text = <<>> THEN 0 ELSE 65

(***************************************************************************)
(* analyze_url.  A frame holds the locals of one call: the position pc in  *)
(* the body, the argument url, the network's answers env, the result       *)
(* dictionary and, once an exception is raised, its message exc.           *)
(***************************************************************************)
SetKey(r, k, v) == (k :> v) @@ r

DefaultResult(url) ==
    [url |-> url,
     status |-> <<"Success">>,
     load_time_ms |-> Some(0),
     meta_title |-> "",
     meta_description |-> "",
     h1_count |-> 0,
     h2_count |-> 0,
     h3_count |-> 0,
     h4_count |-> 0,
     h5_count |-> 0,
     h6_count |-> 0,
     word_count |-> 0,
     readability_score |-> 0,
     internal_links |-> <<>>,
     internal_link_count |-> 0,
     external_links |-> <<>>,
     external_link_count |-> 0]

NewFrame(url, env) ==
    [pc |-> "load_time", url |-> url, env |-> env,
     result |-> DefaultResult(url),
     response |-> None, soup |-> None, text_content |-> <<>>, exc |-> None]

Raise(f, msg) == [f EXCEPT !.pc = "except", !.exc = Some(msg)]

StepLoadTimeUnguarded(f) ==
    IF GetLoadTime(f.url, f.env) = None THEN Raise(f, "ConnectionError")
    ELSE [f EXCEPT !.pc = "fetch",
                   !.result = SetKey(@, "load_time_ms", GetLoadTime(f.url, f.env))]

StepLoadTime(f) ==
    [f EXCEPT !.pc = "fetch",
              !.result = SetKey(@, "load_time_ms", GetLoadTime(f.url, f.env))]

StepFetch(f) ==
    IF ~StartsWithScheme(f.url) THEN Raise(f, "MissingSchema")
    ELSE IF f.env.fetch = None THEN Raise(f, "ConnectionError")
    ELSE [f EXCEPT !.pc = "parse", !.response = f.env.fetch]

StepParse(f) ==
    LET soup == f.response[1].page
    IN  [f EXCEPT !.pc = "word_count",
                  !.soup = Some(soup),
                  !.text_content = Join(soup.blocks)]

StepWordCount(f) ==
    [f EXCEPT !.pc = "readability",
              !.result = SetKey(@, "word_count", Len(f.text_content))]

StepReadability(f) ==
    [f EXCEPT !.pc = "meta",
              !.result = SetKey(@, "readability_score",
                                FleschReadingEase(f.text_content))]

StepMeta(f) ==
    IF MetaRaises(f.soup[1]) THEN Raise(f, "'content'")
    ELSE LET meta_tags == ExtractMetaTags(f.soup[1])
         IN  [f EXCEPT !.pc = "headings",
                       !.result = SetKey(SetKey(@, "meta_title", meta_tags.title),
                                         "meta_description", meta_tags.description)]

WithHeadingCountsCopyPaste(r) ==
    [r EXCEPT !.h1_count = CountLevel(r.headings, "H1"),
              !.h2_count = CountLevel(r.headings, "H2"),
              !.h3_count = CountLevel(r.headings, "H3"),
              !.h4_count = CountLevel(r.headings, "H4"),
              !.h5_count = CountLevel(r.headings, "H5"),
              !.h6_count = CountLevel(r.headings, "H5")]

WithHeadingCounts(r) ==
    [r EXCEPT !.h1_count = CountLevel(r.headings, "H1"),
              !.h2_count = CountLevel(r.headings, "H2"),
              !.h3_count = CountLevel(r.headings, "H3"),
              !.h4_count = CountLevel(r.headings, "H4"),
              !.h5_count = CountLevel(r.headings, "H5"),
              !.h6_count = CountLevel(r.headings, "H6")]

StepHeadings(f) ==
    [f EXCEPT !.pc = "internal",
              !.result = WithHeadingCounts(
                             SetKey(@, "headings", ExtractHeadings(f.soup[1])))]

StepInternal(f) ==
    IF LinksRaise(f.soup[1]) THEN Raise(f, "Invalid IPv6 URL")
    ELSE LET internal_links == ExtractInternalLinks(f.soup[1], f.url)
         IN  [f EXCEPT !.pc = "external",
                       !.result = SetKey(SetKey(@, "internal_links", internal_links),
                                         "internal_link_count", Len(internal_links))]

StepExternal(f) ==
    IF LinksRaise(f.soup[1]) THEN Raise(f, "Invalid IPv6 URL")
    ELSE LET external_links == ExtractExternalLinks(f.soup[1], f.url)
         IN  [f EXCEPT !.pc = "return",
                       !.result = SetKey(SetKey(@, "external_links", external_links),
                                         "external_link_count", Len(external_links))]

StepExceptBareMessage(f) ==
    [f EXCEPT !.pc = "return",
              !.result = SetKey(@, "status", <<f.exc[1]>>)]

StepExcept(f) ==
    [f EXCEPT !.pc = "return",
              !.result = SetKey(@, "status", <<"Error: ", f.exc[1]>>)]

Step(f) ==
    CASE f.pc = "load_time"   -> StepLoadTime(f)
      [] f.pc = "fetch"       -> StepFetch(f)
      [] f.pc = "parse"       -> StepParse(f)
      [] f.pc = "word_count"  -> StepWordCount(f)
      [] f.pc = "readability" -> StepReadability(f)
      [] f.pc = "meta"        -> StepMeta(f)
      [] f.pc = "headings"    -> StepHeadings(f)
      [] f.pc = "internal"    -> StepInternal(f)
      [] f.pc = "external"    -> StepExternal(f)
      [] f.pc = "except"      -> StepExcept(f)

RECURSIVE Run(_)
Run(f) == IF f.pc = "return" THEN f ELSE Run(Step(f))

AnalyzeUrl(url, env) == Run(NewFrame(url, env)).result

(***************************************************************************)
(* The text area of main: urls_input is the text split at newlines, a      *)
(* non-empty sequence of lines.  Line j of a modelled text names the page  *)
(* Paths[j], so that every URL of a batch is distinct; the first lines     *)
(* follow one of LinePatterns (empty, blank, without scheme, with spaces   *)
(* around the URL), the remaining lines are plain https URLs.              *)
(***************************************************************************)
LineKinds == {"empty", "blank", "bare", "padded", "full"}

Line(kind, j) ==
    CASE kind = "empty"  -> <<>>
      [] kind = "blank"  -> <<" ">>
      [] kind = "bare"   -> <<"a.com", Paths[j]>>
      [] kind = "padded" -> <<" ", "https://", "a.com", Paths[j], " ">>
      [] kind = "full"   -> <<"https://", "a.com", Paths[j]>>

LinePatterns ==
    { <<>>, <<"empty">>, <<"blank">>, <<"bare">>, <<"padded">>,
      <<"blank", "bare", "padded", "empty">> }

InputTexts ==
    { [j \in 1..n |-> Line(IF j <= Len(ks) THEN ks[j] ELSE "full", j)] :
        n \in 1..MaxLines, ks \in LinePatterns }

Truthy(text) == text # << <<>> >>

NonBlankLines(text) ==
    LET kept == SelectSeq(text, LAMBDA line : Strip(line) # <<>>)
    IN  [j \in 1..Len(kept) |-> Strip(kept[j])]

NotTruncated(us) == us

Truncated(us) == IF Len(us) > MaxUrls THEN SubSeq(us, 1, MaxUrls) ELSE us

Fraction(n, d) == [num |-> n, den |-> d]

ProgressValueZeroBased(idx, total) == Fraction(idx, total)

ProgressValue(idx, total) == Fraction(idx + 1, total)

SamplePage ==
    [title |-> Some("T"), meta |-> Some([content |-> Some("D")]),
     headings |-> <<[tag |-> "h2", text |-> "t"], [tag |-> "h1", text |-> "t"]>>,
     anchors |-> <<[has_href |-> TRUE, href |-> <<"/x">>, text |-> "a"],
                   [has_href |-> TRUE, href |-> <<"https://", "A.com", "/y">>,
                    text |-> ""]>>,
     blocks |-> << <<"two", "words">> >>]

BrokenPage ==
    [SamplePage EXCEPT
        !.anchors = <<[has_href |-> TRUE, href |-> <<"http://", "[bad">>,
                       text |-> "a"]>>]

BatchEnvs ==
    { [load |-> Some(120), fetch |-> Some(Response(200, SamplePage))],
      [load |-> Some(120), fetch |-> Some(Response(200, BrokenPage))] }

NoFrame ==
    [pc |-> "none", url |-> <<>>, env |-> [load |-> None, fetch |-> None],
     result |-> DefaultResult(<<>>),
     response |-> None, soup |-> None, text_content |-> <<>>, exc |-> None]

(***************************************************************************)
(* main: the batch run started by the Start Analysis button.               *)
(***************************************************************************)
Init ==
    /\ urls_input \in InputTexts
    /\ urls = <<>>
    /\ warned = FALSE
    /\ bar = None
    /\ i = 0
    /\ results = <<>>
    /\ reports = <<>>
    /\ envs = <<>>
    /\ pc = "idle"
    /\ frame = NoFrame

StartAnalysis ==
    /\ pc = "idle"
    /\ Truthy(urls_input)
    /\ urls' = Truncated(NonBlankLines(urls_input))
    /\ warned' = (Len(NonBlankLines(urls_input)) > MaxUrls)
    /\ bar' = Some(Fraction(0, 1))
    /\ i' = 0
    /\ results' = <<>>
    /\ pc' = "loop"
    /\ UNCHANGED <<urls_input, reports, envs, frame>>

AnalyzeNext ==
    /\ pc = "loop"
    /\ i < Len(urls)
    /\ \E env \in BatchEnvs :
          LET url == urls[i + 1]
              result == AnalyzeUrl(url, env)
          IN  /\ results' = Append(results, result)
              /\ envs' = Append(envs, env)
    /\ bar' = Some(ProgressValue(i, Len(urls)))
    /\ reports' = Append(reports, ProgressValue(i, Len(urls)))
    /\ i' = i + 1
    /\ UNCHANGED <<urls_input, urls, warned, pc, frame>>

FinishLoop ==
    /\ pc = "loop"
    /\ i = Len(urls)
    /\ bar' = None
    /\ pc' = "done"
    /\ UNCHANGED <<urls_input, urls, warned, i, results, reports, envs, frame>>

Next == StartAnalysis \/ AnalyzeNext \/ FinishLoop

Spec == Init /\ [][Next]_vars

(***************************************************************************)
(* One call of analyze_url, statement by statement.                        *)
(***************************************************************************)
UrlArgs == {<<"https://", "a.com", "/1">>, <<"a.com", "/1">>}

InitUrl ==
    /\ urls_input = << <<>> >>
    /\ urls = <<>>
    /\ warned = FALSE
    /\ bar = None
    /\ i = 0
    /\ results = <<>>
    /\ reports = <<>>
    /\ envs = <<>>
    /\ pc = "idle"
    /\ frame \in {NewFrame(url, env) : url \in UrlArgs, env \in Envs}

LoadTime ==
    /\ frame.pc = "load_time"
    /\ frame' = StepLoadTime(frame)
    /\ UNCHANGED batchVars

Fetch ==
    /\ frame.pc = "fetch"
    /\ frame' = StepFetch(frame)
    /\ UNCHANGED batchVars

Parse ==
    /\ frame.pc = "parse"
    /\ frame' = StepParse(frame)
    /\ UNCHANGED batchVars

WordCount ==
    /\ frame.pc = "word_count"
    /\ frame' = StepWordCount(frame)
    /\ UNCHANGED batchVars

Readability ==
    /\ frame.pc = "readability"
    /\ frame' = StepReadability(frame)
    /\ UNCHANGED batchVars

Meta ==
    /\ frame.pc = "meta"
    /\ frame' = StepMeta(frame)
    /\ UNCHANGED batchVars

Headings ==
    /\ frame.pc = "headings"
    /\ frame' = StepHeadings(frame)
    /\ UNCHANGED batchVars

InternalLinks ==
    /\ frame.pc = "internal"
    /\ frame' = StepInternal(frame)
    /\ UNCHANGED batchVars

ExternalLinks ==
    /\ frame.pc = "external"
    /\ frame' = StepExternal(frame)
    /\ UNCHANGED batchVars

Except ==
    /\ frame.pc = "except"
    /\ frame' = StepExcept(frame)
    /\ UNCHANGED batchVars

NextUrl ==
    \/ LoadTime \/ Fetch \/ Parse \/ WordCount \/ Readability \/ Meta
    \/ Headings \/ InternalLinks \/ ExternalLinks \/ Except

SpecUrl == InitUrl /\ [][NextUrl]_vars

(***************************************************************************)
(* Properties.                                                             *)
(***************************************************************************)
Returned == frame.pc = "return"

IsSuccess(r) == r.status = <<"Success">>

IsError(r) == Len(r.status) = 2 /\ r.status[1] = "Error: "

HeadingsOf(r) == IF "headings" \in DOMAIN r THEN r.headings ELSE <<>>

CountKey(lvl) ==
    <<"h1_count", "h2_count", "h3_count", "h4_count", "h5_count", "h6_count">>[lvl]

LevelName(lvl) == <<"H1", "H2", "H3", "H4", "H5", "H6">>[lvl]

IsEmptyRecord(r) ==
    /\ r.load_time_ms \in {Some(0), None}
    /\ r.word_count = 0
    /\ r.readability_score = 0
    /\ \A lvl \in 1..6 : r[CountKey(lvl)] = 0
    /\ r.internal_link_count = 0
    /\ r.external_link_count = 0
    /\ r.meta_title = ""
    /\ r.meta_description = ""
    /\ r.internal_links = <<>>
    /\ r.external_links = <<>>

\* C1: a returned record whose status is not 'Success' has every numeric
\* field at its zero/null default and every text/collection field empty.
C1_ErrorRecordIsEmpty ==
    (Returned /\ ~IsSuccess(frame.result)) => IsEmptyRecord(frame.result)

InputUrls == NonBlankLines(urls_input)

Min(a, b) == IF a < b THEN a ELSE b

\* C2: the results hold the first min(n, 10) input URLs in input order: never
\* more than min(n, 10) records, exactly that many once the loop has
\* finished, record k carries input URL k, and no input URL at position 11
\* or later appears in any record.
C2_TruncatedInOrder ==
    /\ Len(results) <= Min(Len(InputUrls), MaxUrls)
    /\ pc = "done" => Len(results) = Min(Len(InputUrls), MaxUrls)
    /\ \A k \in 1..Len(results) : results[k].url = InputUrls[k]
    /\ \A j \in (MaxUrls + 1)..Len(InputUrls) :
          \A k \in 1..Len(results) : results[k].url # InputUrls[j]

C2_Witness ==
    /\ pc = "done"
    /\ Len(InputUrls) > MaxUrls
    /\ Len(results) = MaxUrls
    /\ warned

\* C3: whichever URLs fail, the loop goes on to the next URL (its index is the
\* number of records, so a step is always possible), the finished loop has one record per requested URL, every record's status is 'Success' or begins with 'Error', and
\* record k is the analysis of URL k under the answers the network gave for
\* URL k alone, whatever happened to the other URLs before or after it.
C3_FailureIsolation ==
    /\ pc = "done" => Len(results) = Len(urls)
    /\ pc = "loop" => i = Len(results) /\ i <= Len(urls)
    /\ Len(envs) = Len(results)
    /\ \A k \in 1..Len(results) :
          /\ IsSuccess(results[k]) \/ IsError(results[k])
          /\ results[k] = AnalyzeUrl(urls[k], envs[k])
          /\ results[k].url = urls[k]

C3_Witness ==
    /\ pc = "done"
    /\ Len(results) >= 3
    /\ IsError(results[1])
    /\ IsSuccess(results[2])
    /\ IsError(results[3])
    /\ results[2] = AnalyzeUrl(urls[2], envs[2])

Is2xx(code) == code >= 200 /\ code <= 299

\* C4: when the content fetch receives a non-2xx response the returned
\* record's status is an error and nothing was extracted from the body.
C4_Non2xxFails ==
    (Returned /\ frame.response # None /\ ~Is2xx(frame.response[1].status_code))
        => (~IsSuccess(frame.result) /\ frame.soup = None)

LoadFailedFetchOk ==
    /\ Returned
    /\ StartsWithScheme(frame.url)
    /\ frame.env.load = None
    /\ frame.env.fetch # None

PopulatedFrom(r, page, url) ==
    /\ r.word_count = Len(Join(page.blocks))
    /\ r.meta_title = (IF page.title = None THEN "" ELSE page.title[1])
    /\ r.meta_description = (IF page.meta = None THEN "" ELSE page.meta[1].content[1])
    /\ "headings" \in DOMAIN r
    /\ Len(r.headings) = Len(page.headings)
    /\ r.internal_link_count + r.external_link_count
          = Cardinality({k \in 1..Len(page.anchors) : page.anchors[k].has_href})

LaterStepRaises(page) == MetaRaises(page) \/ LinksRaise(page)

C6_SchemeBeforePipeline ==
    \A k \in 1..Len(results) : StartsWithScheme(results[k].url)

WasExtracted(a) ==
    LET link == LinkRecord(a, frame.url)
        inInternal == \E k \in 1..Len(frame.result.internal_links) :
                          frame.result.internal_links[k] = link
        inExternal == \E k \in 1..Len(frame.result.external_links) :
                          frame.result.external_links[k] = link
        sameHost == Netloc(UrlJoin(frame.url, a.href)) = Netloc(frame.url)
    IN  /\ inInternal # inExternal
        /\ inInternal <=> sameHost

C8_HeadingCounts ==
    Returned =>
        \A lvl \in 1..6 :
            frame.result[CountKey(lvl)]
                = Cardinality({k \in 1..Len(HeadingsOf(frame.result)) :
                                  HeadingsOf(frame.result)[k].level = LevelName(lvl)})

C8_Witness ==
    /\ Returned
    /\ IsError(frame.result)
    /\ "headings" \in DOMAIN frame.result
    /\ frame.result.h6_count = 1
    /\ frame.result.h1_count = 0

Less(x, y) == x.num * y.den < y.num * x.den

\* C9: one progress report per finished URL; the k-th report is k/total,
\* where k is the number of records appended so far; the reports strictly
\* increase; when the loop has finished a non-empty batch the last is 1.
C9_Progress ==
    /\ Len(reports) = Len(results)
    /\ Len(reports) = i
    /\ \A k \in 1..Len(reports) :
          /\ reports[k].den > 0
          /\ reports[k].num * Len(urls) = k * reports[k].den
    /\ \A k \in 1..(Len(reports) - 1) : Less(reports[k], reports[k + 1])
    /\ (pc = "done" /\ Len(urls) >= 1) =>
          /\ Len(reports) = Len(urls)
          /\ reports[Len(reports)].num = reports[Len(reports)].den

C9_Witness ==
    /\ pc = "done"
    /\ Len(reports) = 3
    /\ reports[2] = Fraction(2, 3)
    /\ reports[3] = Fraction(3, 3)

ResultKeys == DOMAIN DefaultResult(<<>>) \cup {"headings"}

\* C10: every returned record has the same keys, headings included,
\* whatever the outcome.
C10_SameKeys == Returned => DOMAIN frame.result = ResultKeys

====
